---- MODULE Spec2Model ----
(***************************************************************************)
(* The raft index manager of rnacos (src/raft/filestore/raftindex.rs): the *)
(* actor that owns the `index` file and the in-memory catalog.             *)
(*                                                                         *)
(* The index file is a sequence of cells.  Cells 1..8 are the big-endian   *)
(* last_applied_log header; the catalog record starts at offset 8: one     *)
(* length cell followed by that many field cells.                          *)
(***************************************************************************)
EXTENDS Integers, Sequences, FiniteSets, TLC

VARIABLES
    file,      \* the bytes of <dir>/index
    inner,     \* RaftIndexManager.inner : Option<Box<RaftIndexInnerManager>>
    wait,      \* the future handed to ctx.wait(), with the state it captured
    actor,     \* "Down" | "Running" | "Stopped"
    reply,     \* what the last handled request returned to its caller
    ioErr,     \* a file operation has returned Err since the actor started
    down,      \* how the process last went down, and what it had saved
    termSeen,  \* highest current_term a caller was shown or stored so far
    nreq,      \* requests handled so far
    ndown,     \* shutdowns and crashes so far
    conn_manage,         \* DelayNotifyActor.conn_manage : Option<Addr<BiStreamManage>>
    naming_addr,         \* DelayNotifyActor.naming_addr : Option<Addr<NamingActor>>
    inner_delay_notify,  \* the pending NamingDelayEvents, one per ServiceKey
    lastNotify,          \* the last DelayNotifyCmd handled, and what was pending
    fired,               \* the events the last heartbeat called on_event on
    sent                 \* the BiStreamManageCmds the last heartbeat sent

\* the state of the DelayNotifyActor
notifyVars ==
    <<conn_manage, naming_addr, inner_delay_notify, lastNotify, fired, sent>>

vars ==
    <<file, inner, wait, actor, reply, ioErr, down, termSeen, nreq, ndown,
      notifyVars>>

(***************************************************************************)
(* Bounds of the model.                                                    *)
(***************************************************************************)
MaxTerm == 2
MaxIndex == 2
MaxRequests == 2
MaxDowns == 1

(***************************************************************************)
(* Option<T> as a sequence of length 0 or 1.                               *)
(***************************************************************************)
None == <<>>
Some(x) == <<x>>
Unwrap(o) == o[1]

Max(a, b) == IF a >= b THEN a ELSE b

Nodes == {1, 2}
Addrs == {"a", "b"}
EmptyMap == <<>>

(***************************************************************************)
(* LogRange, SnapshotRange, RaftIndexDto.                                  *)
(***************************************************************************)
LogRange(id, start_index, pre_term, record_count, is_close) ==
    [id |-> id, start_index |-> start_index, pre_term |-> pre_term,
     record_count |-> record_count, is_close |-> is_close, mark_remove |-> FALSE]

SnapshotRange(id, last_included_index, last_included_term) ==
    [id |-> id, last_included_index |-> last_included_index,
     last_included_term |-> last_included_term]

\* RaftIndex::default(): the record form, node_addrs a list of (id, addr)
DefaultIndex ==
    [current_term |-> 0, voted_for |-> 0, member |-> <<>>,
     member_after_consensus |-> <<>>, node_addrs |-> <<>>,
     logs |-> <<>>, snapshots |-> <<>>]

\* an init that writes the default catalog, with no segment in it
FreshIndexNoSegment == DefaultIndex

\* the catalog init writes into an empty file
FreshIndex == [DefaultIndex EXCEPT !.logs = Append(@, LogRange(0, 0, 0, 0, FALSE))]

RECURSIVE AddrList(_, _)
AddrList(m, keys) ==
    IF keys = {} THEN <<>>
    ELSE LET k == CHOOSE x \in keys : \A y \in keys : x <= y
         IN  <<[id |-> k, addr |-> m[k]]>> \o AddrList(m, keys \ {k})

RECURSIVE AddrMap(_)
AddrMap(list) ==
    IF list = <<>> THEN EmptyMap
    ELSE LET m == AddrMap(SubSeq(list, 1, Len(list) - 1))
             e == list[Len(list)]
         IN  [k \in DOMAIN m \cup {e.id} |-> IF k = e.id THEN e.addr ELSE m[k]]

\* RaftIndexDto::to_record_do: the map of node addresses becomes a list
to_record_do(dto) ==
    [dto EXCEPT !.node_addrs = AddrList(dto.node_addrs, DOMAIN dto.node_addrs)]

\* TryFrom<RaftIndex> for RaftIndexDto: the list becomes a map again
try_into(index) == [index EXCEPT !.node_addrs = AddrMap(index.node_addrs)]

(***************************************************************************)
(* id_to_bin / bin_to_id: a u64 as 8 big-endian bytes.                     *)
(***************************************************************************)
HeaderLen == 8

RECURSIVE BigEndian(_, _)
BigEndian(n, len) ==
    IF len = 0 THEN <<>> ELSE Append(BigEndian(n \div 256, len - 1), n % 256)

id_to_bin(id) == BigEndian(id, HeaderLen)

RECURSIVE bin_to_id(_)
bin_to_id(bytes) ==
    IF bytes = <<>> THEN 0
    ELSE 256 * bin_to_id(SubSeq(bytes, 1, Len(bytes) - 1)) + bytes[Len(bytes)]

(***************************************************************************)
(* The catalog record.  to_record_do + Writer::write_message: one cell per *)
(* field in tag order, scalar fields equal to their default left out, a    *)
(* packed repeated field in one cell, a repeated message one cell each,    *)
(* and the number of cells in front.                                       *)
(***************************************************************************)
Field(tag, val) == [tag |-> tag, val |-> val]

RECURSIVE EachField(_, _)
EachField(tag, seq) ==
    IF seq = <<>> THEN <<>>
    ELSE <<Field(tag, Head(seq))>> \o EachField(tag, Tail(seq))

EncodeFields(index) ==
       EachField("logs", index.logs)
    \o (IF index.current_term = 0 THEN <<>>
        ELSE <<Field("current_term", index.current_term)>>)
    \o (IF index.voted_for = 0 THEN <<>>
        ELSE <<Field("voted_for", index.voted_for)>>)
    \o EachField("snapshots", index.snapshots)
    \o (IF index.member = <<>> THEN <<>> ELSE <<Field("member", index.member)>>)
    \o (IF index.member_after_consensus = <<>> THEN <<>>
        ELSE <<Field("member_after_consensus", index.member_after_consensus)>>)
    \o EachField("node_addrs", index.node_addrs)

write_message(index) ==
    LET body == EncodeFields(index) IN <<Len(body)>> \o body

\* one field read into the message being decoded
ReadField(index, f) ==
    CASE f.tag = "logs" -> [index EXCEPT !.logs = Append(@, f.val)]
      [] f.tag = "current_term" -> [index EXCEPT !.current_term = f.val]
      [] f.tag = "voted_for" -> [index EXCEPT !.voted_for = f.val]
      [] f.tag = "snapshots" -> [index EXCEPT !.snapshots = Append(@, f.val)]
      [] f.tag = "member" -> [index EXCEPT !.member = @ \o f.val]
      [] f.tag = "member_after_consensus" ->
            [index EXCEPT !.member_after_consensus = @ \o f.val]
      [] f.tag = "node_addrs" -> [index EXCEPT !.node_addrs = Append(@, f.val)]

RECURSIVE ReadFields(_, _)
ReadFields(index, fields) ==
    IF fields = <<>> THEN index
    ELSE ReadFields(ReadField(index, Head(fields)), Tail(fields))

\* reader.read_message(&buf): the length cell, then the fields
read_message(buf) == ReadFields(DefaultIndex, Tail(buf))

\* FileMessageReader::new(file, start).read_next(): the record at `start`,
\* or Eof when its length cell or part of its body is missing
read_next(f, start) ==
    IF Len(f) < start + 1 THEN None
    ELSE LET n == f[start + 1]
         IN  IF Len(f) < start + 1 + n THEN None
             ELSE Some(SubSeq(f, start + 1, start + 1 + n))

\* file.read(&mut buf) at offset 0 into a zeroed buffer of `len` bytes
ReadHeader(f, len) ==
    [i \in 1..len |-> IF i <= Len(f) THEN f[i] ELSE 0]

\* file.write(&buf) at offset `pos`: overwrites in place, extends the file,
\* never truncates it
WriteAt(f, pos, buf) ==
    [i \in 1..Max(Len(f), pos + Len(buf)) |->
        IF i > pos /\ i <= pos + Len(buf) THEN buf[i - pos]
        ELSE IF i <= Len(f) THEN f[i] ELSE 0]

(***************************************************************************)
(* Requests and responses.                                                 *)
(***************************************************************************)
\* segment lists a caller may save: one open segment, a sealed segment
\* followed by an open one, a list with a gap, a list whose first segment
\* is not sealed
LogLists ==
    LET n == MaxIndex
    IN  { <<LogRange(0, 0, 0, n, FALSE)>>,
          <<LogRange(0, 0, 0, n, TRUE), LogRange(1, n, 1, 0, FALSE)>>,
          <<LogRange(0, 0, 0, n, TRUE), LogRange(1, n + 1, 1, 0, FALSE)>>,
          <<LogRange(0, 0, 0, n, FALSE), LogRange(1, n, 1, 0, FALSE)>> }

SnapshotLists == {<<>>, <<SnapshotRange(0, MaxIndex - 1, 1)>>}

AddrMaps == {EmptyMap, (1 :> "b") @@ (2 :> "b")}

MemberArgs ==
    {[member |-> <<1>>, member_after_consensus |-> <<>>, node_addr |-> None],
     [member |-> <<1>>, member_after_consensus |-> <<1, 2>>, node_addr |-> None],
     [member |-> <<1, 2>>, member_after_consensus |-> <<>>,
      node_addr |-> Some(1 :> "a")]}

AddrArgs == {[id |-> 1, addr |-> "b"], [id |-> 2, addr |-> "a"]}

\* the candidate a node votes for in term t
Candidate(t) == (t % 2) + 1

RespNone == [kind |-> "None"]
Ok(v) == [ok |-> TRUE, val |-> v]
Err(e) == [ok |-> FALSE, err |-> e]

inner_is_empty_error == Err("inner is empty")

\* what a handler leaves behind: the manager's inner, the future it gave to
\* ctx.wait() and the value it returns
Handled(in, w, res) == [inner |-> in, wait |-> w, res |-> res]

load_index_info(in) ==
    IF in # None
    THEN Handled(in, None,
                 Ok([kind |-> "RaftIndexInfo",
                     raft_index |-> Unwrap(in).raft_index,
                     last_applied_log |-> Unwrap(in).last_applied_log]))
    ELSE Handled(in, None, inner_is_empty_error)

write_last_applied_log(in, f, last_applied_log) ==
    IF in = None THEN Handled(in, None, inner_is_empty_error)
    ELSE Handled(None,
                 Some([op |-> "write_last_applied_log", pc |-> "seek",
                       v |-> in, last_applied_log |-> last_applied_log,
                       file0 |-> f]),
                 Ok(RespNone))

\* a write_index that answers without scheduling the file write
write_index_unsaved(in, f, index) ==
    IF in = None THEN Handled(in, None, inner_is_empty_error)
    ELSE Handled(in, None, Ok(RespNone))

write_index(in, f, index) ==
    IF in = None THEN Handled(in, None, inner_is_empty_error)
    ELSE Handled(None,
                 Some([op |-> "write_index", pc |-> "seek",
                       v |-> in, index |-> index, file0 |-> f]),
                 Ok(RespNone))

write_logs(in, f, logs) ==
    IF in # None
    THEN LET m == [Unwrap(in) EXCEPT !.raft_index.logs = logs]
         IN  write_index(Some(m), f, m.raft_index)
    ELSE Handled(in, None, inner_is_empty_error)

write_snapshots(in, f, snapshots) ==
    IF in # None
    THEN LET m == [Unwrap(in) EXCEPT !.raft_index.snapshots = snapshots]
         IN  write_index(Some(m), f, m.raft_index)
    ELSE Handled(in, None, inner_is_empty_error)

write_member(in, f, member, member_after_consensus, node_addr) ==
    IF in # None
    THEN LET m1 == [Unwrap(in) EXCEPT
                       !.raft_index.member = member,
                       !.raft_index.member_after_consensus = member_after_consensus]
             m  == IF node_addr # None
                   THEN [m1 EXCEPT !.raft_index.node_addrs = Unwrap(node_addr)]
                   ELSE m1
         IN  write_index(Some(m), f, m.raft_index)
    ELSE Handled(in, None, inner_is_empty_error)

write_node_addr(in, f, node_addr) ==
    IF in # None
    THEN LET m == [Unwrap(in) EXCEPT !.raft_index.node_addrs = node_addr]
         IN  write_index(Some(m), f, m.raft_index)
    ELSE Handled(in, None, inner_is_empty_error)

\* an AddNodeAddr that keeps the one address it is given and no other
add_node_addr_alone(in, f, id, node_addr) ==
    write_node_addr(in, f, [k \in {id} |-> node_addr])

add_node_addr(in, f, id, node_addr) ==
    IF in # None
    THEN LET old == Unwrap(in).raft_index.node_addrs
             m == [Unwrap(in) EXCEPT !.raft_index.node_addrs =
                      [k \in DOMAIN old \cup {id} |->
                          IF k = id THEN node_addr ELSE old[k]]]
         IN  write_index(Some(m), f, m.raft_index)
    ELSE Handled(in, None, inner_is_empty_error)

write_hard_state(in, f, current_term, voted_for) ==
    IF in # None
    THEN LET m == [Unwrap(in) EXCEPT !.raft_index.current_term = current_term,
                                     !.raft_index.voted_for = voted_for]
         IN  write_index(Some(m), f, m.raft_index)
    ELSE Handled(in, None, inner_is_empty_error)

load_hard_state(in) ==
    IF in # None
    THEN Handled(in, None,
                 Ok([kind |-> "HardState",
                     current_term |-> Unwrap(in).raft_index.current_term,
                     voted_for |-> Unwrap(in).raft_index.voted_for]))
    ELSE Handled(in, None, Ok(RespNone))

load_member(in) ==
    IF in # None
    THEN Handled(in, None,
                 Ok([kind |-> "MemberShip",
                     member |-> Unwrap(in).raft_index.member,
                     member_after_consensus |->
                         Unwrap(in).raft_index.member_after_consensus,
                     node_addrs |-> Unwrap(in).raft_index.node_addrs]))
    ELSE Handled(in, None, Ok(RespNone))

get_target_addr(in, id) ==
    LET addr == IF in # None
                THEN IF id \in DOMAIN Unwrap(in).raft_index.node_addrs
                     THEN Some(Unwrap(in).raft_index.node_addrs[id])
                     ELSE None
                ELSE None
    IN  Handled(in, None, Ok([kind |-> "TargetAddr", addr |-> addr]))

\* Handler<RaftIndexRequest>::handle
handle(in, f, msg) ==
    CASE msg.op = "LoadIndexInfo" -> load_index_info(in)
      [] msg.op = "SaveSnapshots" -> write_snapshots(in, f, msg.snapshots)
      [] msg.op = "SaveLastAppliedLog" ->
            write_last_applied_log(in, f, msg.last_applied_log)
      [] msg.op = "SaveLogs" -> write_logs(in, f, msg.logs)
      [] msg.op = "SaveMember" ->
            write_member(in, f, msg.member, msg.member_after_consensus,
                         msg.node_addr)
      [] msg.op = "SaveNodeAddr" -> write_node_addr(in, f, msg.node_addr)
      [] msg.op = "AddNodeAddr" -> add_node_addr(in, f, msg.id, msg.node_addr)
      [] msg.op = "SaveHardState" ->
            write_hard_state(in, f, msg.current_term, msg.voted_for)
      [] msg.op = "LoadHardState" -> load_hard_state(in)
      [] msg.op = "LoadMember" -> load_member(in)
      [] msg.op = "GetTargetAddr" -> get_target_addr(in, msg.id)

(***************************************************************************)
(* The process: Actor::started runs init; a request is handled only while  *)
(* no future is being waited for; every file operation is a step.          *)
(***************************************************************************)
NoDown == [clean |-> FALSE, saved |-> None, task |-> None]

\* DelayNotifyActor::new
NotifyNew ==
    /\ conn_manage = None
    /\ naming_addr = None
    /\ inner_delay_notify = {}
    /\ lastNotify = None
    /\ fired = {}
    /\ sent = {}

Init ==
    /\ NotifyNew
    /\ file = <<>>
    /\ inner = None
    /\ wait = None
    /\ actor = "Down"
    /\ reply = None
    /\ ioErr = FALSE
    /\ down = NoDown
    /\ termSeen = 0
    /\ nreq = 0
    /\ ndown = 0

Task == Unwrap(wait)
At(op, pc) == actor = "Running" /\ wait # None /\ Task.op = op /\ Task.pc = pc

\* Actor::started -> RaftIndexManager::init: the init future is waited for
Start ==
    /\ actor = "Down"
    /\ actor' = "Running"
    /\ inner' = None
    /\ wait' = Some([op |-> "init", pc |-> "open", file0 |-> file])
    /\ ioErr' = FALSE
    /\ UNCHANGED <<notifyVars, file, reply, down, termSeen, nreq, ndown>>

\* init, meta.len() == 0: the header is written, the catalog record follows
InitWriteHeader ==
    /\ At("init", "open")
    /\ Len(file) = 0
    /\ file' = WriteAt(file, 0, id_to_bin(0))
    /\ wait' = Some([Task EXCEPT !.pc = "write_buf"])
    /\ UNCHANGED <<notifyVars, inner, actor, reply, ioErr, down, termSeen, nreq, ndown>>

InitWriteBuf ==
    /\ At("init", "write_buf")
    /\ file' = WriteAt(file, Len(id_to_bin(0)), write_message(FreshIndex))
    /\ wait' = Some([Task EXCEPT !.pc = "flush"])
    /\ UNCHANGED <<notifyVars, inner, actor, reply, ioErr, down, termSeen, nreq, ndown>>

\* flush, then Ok(Self{..}) reaches the map closure: act.inner = Some(v)
InitFlush ==
    /\ At("init", "flush")
    /\ inner' = Some([raft_index |-> try_into(FreshIndex), last_applied_log |-> 0])
    /\ wait' = None
    /\ UNCHANGED <<notifyVars, file, actor, reply, ioErr, down, termSeen, nreq, ndown>>

\* an init that takes a missing or truncated record for an empty catalog
LoadFileOrDefault(f) ==
    LET header_buf == ReadHeader(f, HeaderLen)
        buf == read_next(f, HeaderLen)
    IN  Some([raft_index |->
                  IF buf = None THEN try_into(DefaultIndex)
                  ELSE try_into(read_message(Unwrap(buf))),
              last_applied_log |-> bin_to_id(header_buf)])

\* what init reads from a file that is not empty: Ok(inner) or Err
LoadFile(f) ==
    LET header_buf == ReadHeader(f, HeaderLen)
        buf == read_next(f, HeaderLen)
    IN  IF buf = None THEN None
        ELSE Some([raft_index |-> try_into(read_message(Unwrap(buf))),
                   last_applied_log |-> bin_to_id(header_buf)])

\* init, meta.len() # 0: Ok(v) => act.inner = Some(v); Err(e) => ctx.stop()
InitLoad ==
    /\ At("init", "open")
    /\ Len(file) # 0
    /\ LET r == LoadFile(file)
       IN  /\ inner' = r
           /\ actor' = IF r = None THEN "Stopped" ELSE "Running"
    /\ wait' = None
    /\ UNCHANGED <<notifyVars, file, reply, ioErr, down, termSeen, nreq, ndown>>

\* any `?` of init on a failing file operation: Err(e) => ctx.stop()
InitIoError ==
    /\ actor = "Running" /\ wait # None /\ Task.op = "init"
    /\ actor' = "Stopped"
    /\ wait' = None
    /\ ioErr' = TRUE
    /\ UNCHANGED <<notifyVars, file, inner, reply, down, termSeen, nreq, ndown>>

(***************************************************************************)
(* The request handlers.  handle() runs to its return in one step: the     *)
(* in-memory change, inner.take(), the future given to ctx.wait() and the  *)
(* value returned to the caller.                                           *)
(***************************************************************************)
ShownTerm(msg, res) ==
    IF ~res.ok THEN 0
    ELSE CASE msg.op = "SaveHardState" -> msg.current_term
           [] res.val.kind = "HardState" -> res.val.current_term
           [] res.val.kind = "RaftIndexInfo" -> res.val.raft_index.current_term
           [] OTHER -> 0

\* a context that takes the next message while a future is still running
SpawnedNotWaited == FALSE

\* ctx.wait(fut): no message is taken from the mailbox before fut is done
Waiting == wait # None

Handle(msg) ==
    /\ actor = "Running"
    /\ ~Waiting
    /\ nreq < MaxRequests
    /\ LET h == handle(inner, file, msg)
       IN  /\ inner' = h.inner
           /\ wait' = h.wait
           /\ reply' = Some([req |-> msg, res |-> h.res, pre |-> inner,
                             file0 |-> file, seen |-> termSeen])
           /\ termSeen' = Max(termSeen, ShownTerm(msg, h.res))
    /\ nreq' = nreq + 1
    /\ UNCHANGED <<notifyVars, file, actor, ioErr, down, ndown>>

LoadIndexInfo == Handle([op |-> "LoadIndexInfo"])
LoadHardState == Handle([op |-> "LoadHardState"])
LoadMember == Handle([op |-> "LoadMember"])
GetTargetAddr == \E id \in Nodes : Handle([op |-> "GetTargetAddr", id |-> id])
SaveLogs == \E logs \in LogLists : Handle([op |-> "SaveLogs", logs |-> logs])
SaveSnapshots ==
    \E snapshots \in SnapshotLists :
        Handle([op |-> "SaveSnapshots", snapshots |-> snapshots])
SaveLastAppliedLog ==
    \E n \in 1..MaxIndex :
        Handle([op |-> "SaveLastAppliedLog", last_applied_log |-> n])
SaveMember ==
    \E m \in MemberArgs :
        Handle([op |-> "SaveMember", member |-> m.member,
                member_after_consensus |-> m.member_after_consensus,
                node_addr |-> m.node_addr])
SaveNodeAddr ==
    \E a \in AddrMaps : Handle([op |-> "SaveNodeAddr", node_addr |-> a])
AddNodeAddr ==
    \E e \in AddrArgs :
        Handle([op |-> "AddNodeAddr", id |-> e.id, node_addr |-> e.addr])
SaveHardState ==
    \E t \in 1..MaxTerm :
        Handle([op |-> "SaveHardState", current_term |-> t,
                voted_for |-> Candidate(t)])

(***************************************************************************)
(* The futures of the write handlers, one file operation per step.         *)
(***************************************************************************)
IndexPos == 8

\* a header written where the catalog record starts
LastAppliedPosAtRecord == IndexPos

LastAppliedPos == 0

\* a write cut short after k bytes
Partial(f, pos, buf, k) == WriteAt(f, pos, SubSeq(buf, 1, k))

\* the files an interrupted write can leave: the 8-byte header lands whole
\* or not at all, the catalog record may stop after any of its cells
Torn(f, pos, buf) ==
    IF Len(buf) = HeaderLen /\ pos = LastAppliedPos
    THEN {f, WriteAt(f, pos, buf)}
    ELSE {Partial(f, pos, buf, k) : k \in 0..Len(buf)}

\* the future is done: .map(|v, act, _ctx| act.inner = v)
Resume(v) ==
    /\ inner' = v
    /\ wait' = None

\* RaftIndexInnerManager::write_last_applied_log
LastAppliedSeek ==
    /\ At("write_last_applied_log", "seek")
    /\ wait' = Some([Task EXCEPT
                        !.v = Some([Unwrap(@) EXCEPT
                                       !.last_applied_log = Task.last_applied_log]),
                        !.pc = "write"])
    /\ UNCHANGED <<notifyVars, file, inner, actor, reply, ioErr, down, termSeen, nreq, ndown>>

LastAppliedWrite ==
    /\ At("write_last_applied_log", "write")
    /\ file' = WriteAt(file, LastAppliedPos, id_to_bin(Task.last_applied_log))
    /\ Resume(Task.v)
    /\ UNCHANGED <<notifyVars, actor, reply, ioErr, down, termSeen, nreq, ndown>>

\* seek or write returns Err: log::error!, and inner goes back all the same
LastAppliedError ==
    /\ actor = "Running" /\ wait # None /\ Task.op = "write_last_applied_log"
    /\ Resume(Some([Unwrap(Task.v) EXCEPT
                       !.last_applied_log = Task.last_applied_log]))
    /\ ioErr' = TRUE
    /\ UNCHANGED <<notifyVars, file, actor, reply, down, termSeen, nreq, ndown>>

\* RaftIndexInnerManager::write_index
WriteIndexSeek ==
    /\ At("write_index", "seek")
    /\ wait' = Some([Task EXCEPT
                        !.v = Some([Unwrap(@) EXCEPT !.raft_index = Task.index]),
                        !.pc = "write"])
    /\ UNCHANGED <<notifyVars, file, inner, actor, reply, ioErr, down, termSeen, nreq, ndown>>

IndexBuf(v) == write_message(to_record_do(Unwrap(v).raft_index))

\* a rewrite of the whole file: the header goes back to id_to_bin(0)
WriteIndexWriteFromStart ==
    /\ At("write_index", "write")
    /\ file' = WriteAt(WriteAt(file, 0, id_to_bin(0)), IndexPos, IndexBuf(Task.v))
    /\ wait' = Some([Task EXCEPT !.pc = "flush"])
    /\ UNCHANGED <<notifyVars, inner, actor, reply, ioErr, down, termSeen, nreq, ndown>>

WriteIndexWrite ==
    /\ At("write_index", "write")
    /\ file' = WriteAt(file, IndexPos, IndexBuf(Task.v))
    /\ wait' = Some([Task EXCEPT !.pc = "flush"])
    /\ UNCHANGED <<notifyVars, inner, actor, reply, ioErr, down, termSeen, nreq, ndown>>

WriteIndexFlush ==
    /\ At("write_index", "flush")
    /\ Resume(Task.v)
    /\ UNCHANGED <<notifyVars, file, actor, reply, ioErr, down, termSeen, nreq, ndown>>

\* a future that leaves on the error and gives nothing back to the actor
WriteIndexErrorLosesInner ==
    /\ actor = "Running" /\ wait # None /\ Task.op = "write_index"
    /\ Resume(None)
    /\ ioErr' = TRUE
    /\ UNCHANGED <<notifyVars, file, actor, reply, down, termSeen, nreq, ndown>>

\* a future that takes its change of the catalog back on the error
WriteIndexErrorRollsBack ==
    /\ actor = "Running" /\ wait # None /\ Task.op = "write_index"
    /\ Resume(Unwrap(reply).pre)
    /\ ioErr' = TRUE
    /\ UNCHANGED <<notifyVars, file, actor, reply, down, termSeen, nreq, ndown>>

\* seek, write or flush returns Err: log::error!, and inner goes back
WriteIndexError ==
    /\ actor = "Running" /\ wait # None /\ Task.op = "write_index"
    /\ Resume(Some([Unwrap(Task.v) EXCEPT !.raft_index = Task.index]))
    /\ ioErr' = TRUE
    /\ UNCHANGED <<notifyVars, file, actor, reply, down, termSeen, nreq, ndown>>

(***************************************************************************)
(* The process going down: an orderly shutdown of the idle actor, or a     *)
(* crash at any point, which may cut the write in progress short.          *)
(***************************************************************************)
CrashFiles ==
    IF actor = "Running" /\ wait # None
    THEN CASE Task.op = "init" /\ Task.pc = "write_buf" ->
                  Torn(file, Len(id_to_bin(0)), write_message(FreshIndex))
           [] Task.op = "write_index" /\ Task.pc = "write" ->
                  Torn(file, IndexPos, IndexBuf(Task.v))
           [] Task.op = "write_last_applied_log" /\ Task.pc = "write" ->
                  Torn(file, LastAppliedPos, id_to_bin(Task.last_applied_log))
           [] OTHER -> {file}
    ELSE {file}

\* the catalog a request leaves as the saved one
Saved(pre, msg) ==
    CASE msg.op = "SaveLogs" -> [pre EXCEPT !.raft_index.logs = msg.logs]
      [] msg.op = "SaveSnapshots" ->
            [pre EXCEPT !.raft_index.snapshots = msg.snapshots]
      [] msg.op = "SaveLastAppliedLog" ->
            [pre EXCEPT !.last_applied_log = msg.last_applied_log]
      [] msg.op = "SaveMember" ->
            [pre EXCEPT
                !.raft_index.member = msg.member,
                !.raft_index.member_after_consensus = msg.member_after_consensus,
                !.raft_index.node_addrs =
                    IF msg.node_addr = None THEN @ ELSE Unwrap(msg.node_addr)]
      [] msg.op = "SaveNodeAddr" ->
            [pre EXCEPT !.raft_index.node_addrs = msg.node_addr]
      [] msg.op = "AddNodeAddr" ->
            [pre EXCEPT !.raft_index.node_addrs =
                [k \in DOMAIN @ \cup {msg.id} |->
                    IF k = msg.id THEN msg.node_addr ELSE @[k]]]
      [] msg.op = "SaveHardState" ->
            [pre EXCEPT !.raft_index.current_term = msg.current_term,
                        !.raft_index.voted_for = msg.voted_for]
      [] OTHER -> pre

\* the write request a crash interrupts, with what the file held before it
Interrupted ==
    IF actor = "Running" /\ wait # None /\ Task.op # "init"
    THEN Some([op |-> Task.op,
               req |-> Unwrap(reply).req.op,
               index |-> IF Task.op = "write_index" THEN Some(Task.index) ELSE None,
               last_applied_log |->
                   IF Task.op = "write_last_applied_log"
                   THEN Some(Task.last_applied_log) ELSE None,
               disk |-> LoadFile(Task.file0)])
    ELSE None

Crash ==
    /\ actor \in {"Running", "Stopped"}
    /\ ndown < MaxDowns
    /\ file' \in CrashFiles
    /\ down' = [clean |-> FALSE, saved |-> None, task |-> Interrupted]
    /\ actor' = "Down"
    /\ inner' = None
    /\ wait' = None
    /\ reply' = None
    /\ ndown' = ndown + 1
    /\ UNCHANGED <<notifyVars, ioErr, termSeen, nreq>>

Shutdown ==
    /\ actor = "Running"
    /\ wait = None
    /\ ndown < MaxDowns
    /\ down' = IF ioErr THEN NoDown
                ELSE [clean |-> TRUE, task |-> None,
                      saved |-> IF reply = None THEN inner
                                ELSE Some(Saved(Unwrap(Unwrap(reply).pre),
                                                Unwrap(reply).req))]
    /\ actor' = "Down"
    /\ inner' = None
    /\ reply' = None
    /\ ndown' = ndown + 1
    /\ UNCHANGED <<notifyVars, file, wait, ioErr, termSeen, nreq>>

Next ==
    \/ Start
    \/ InitWriteHeader
    \/ InitWriteBuf
    \/ InitFlush
    \/ InitLoad
    \/ InitIoError
    \/ LoadIndexInfo
    \/ LoadHardState
    \/ LoadMember
    \/ GetTargetAddr
    \/ SaveLogs
    \/ SaveSnapshots
    \/ SaveLastAppliedLog
    \/ SaveMember
    \/ SaveNodeAddr
    \/ AddNodeAddr
    \/ SaveHardState
    \/ LastAppliedSeek
    \/ LastAppliedWrite
    \/ LastAppliedError
    \/ WriteIndexSeek
    \/ WriteIndexWrite
    \/ WriteIndexFlush
    \/ WriteIndexError
    \/ Crash
    \/ Shutdown

Spec == Init /\ [][Next]_vars

(***************************************************************************)
(* Handler::handle as a function of the manager it is called on: a manager *)
(* as RaftIndexManager::new leaves it (inner: None), or one that holds a   *)
(* catalog.  The actor never gets here with inner: None (init is waited    *)
(* for, and a failed init stops the context); this specification applies   *)
(* the handlers to such a manager all the same.                            *)
(***************************************************************************)
Msgs ==
    {[op |-> "SaveLogs", logs |-> logs] : logs \in LogLists}
    \cup {[op |-> "SaveSnapshots", snapshots |-> x] : x \in SnapshotLists}
    \cup {[op |-> "SaveLastAppliedLog", last_applied_log |-> n] : n \in 1..MaxIndex}
    \cup {[op |-> "SaveNodeAddr", node_addr |-> a] : a \in AddrMaps}
    \cup {[op |-> "SaveHardState", current_term |-> t, voted_for |-> Candidate(t)] :
              t \in 1..MaxTerm}

Fresh == [raft_index |-> try_into(FreshIndex), last_applied_log |-> 0]

Managers == {None, Some(Fresh)} \cup {Some(Saved(Fresh, msg)) : msg \in Msgs}

InitHandle ==
    /\ NotifyNew
    /\ inner \in Managers
    /\ file = IF inner = None THEN <<>>
              ELSE id_to_bin(Unwrap(inner).last_applied_log) \o IndexBuf(inner)
    /\ wait = None
    /\ actor = "Running"
    /\ reply = None
    /\ ioErr = FALSE
    /\ down = NoDown
    /\ termSeen = 0
    /\ nreq = 0
    /\ ndown = 0

NextHandle ==
    \/ LoadIndexInfo
    \/ LoadHardState
    \/ LoadMember
    \/ GetTargetAddr
    \/ SaveLogs
    \/ SaveSnapshots
    \/ SaveLastAppliedLog
    \/ SaveMember
    \/ SaveNodeAddr
    \/ AddNodeAddr
    \/ SaveHardState

SpecHandle == InitHandle /\ [][NextHandle]_vars

(***************************************************************************)
(* The DelayNotifyActor of the naming module: DelayNotifyCmd::Notify puts  *)
(* a NamingDelayEvent among the pending ones, where it is merged into the  *)
(* event pending for the same key; the heartbeat takes the events that are *)
(* due, asks the NamingActor for the ServiceInfo of each and calls         *)
(* on_event.                                                               *)
(***************************************************************************)
ServiceKeys == {"k1", "k2"}
ClientIds == {"c1", "c2"}
ServiceInfos == {"s1", "s2"}
BiStreamManage == "BiStreamManage"
NamingActor == "NamingActor"

NamingDelayEvent(key, client_id_set, service_info, addr) ==
    [key |-> key, client_id_set |-> client_id_set,
     service_info |-> service_info, conn_manage |-> addr]

NamingDelayEvents ==
    {NamingDelayEvent(k, c, s, m) :
        k \in ServiceKeys, c \in SUBSET ClientIds,
        s \in {None} \cup {Some(i) : i \in ServiceInfos},
        m \in {None, Some(BiStreamManage)}}

\* a merge that adds the client ids of the new event to those pending
merge_union(self, other) ==
    [self EXCEPT !.service_info = other.service_info,
                 !.client_id_set = @ \cup other.client_id_set,
                 !.conn_manage = other.conn_manage]

\* NotifyEvent::merge for NamingDelayEvent: self after merge(other)
merge(self, other) ==
    [self EXCEPT !.service_info = other.service_info,
                 !.client_id_set = other.client_id_set,
                 !.conn_manage = other.conn_manage]

NotifyNaming(key, client_id_set, service_info) ==
    [cmd |-> "NotifyNaming", key |-> key, client_id_set |-> client_id_set,
     service_info |-> service_info]

\* NotifyEvent::on_event: the commands do_send gives to conn_manage
on_event(self) ==
    IF self.conn_manage # None /\ self.service_info # None
    THEN {NotifyNaming(self.key, self.client_id_set, Unwrap(self.service_info))}
    ELSE {}

\* DelayNotify::add_event: merged into the event pending for the key, if any
add_event(events, key, event) ==
    IF \E e \in events : e.key = key
    THEN LET e == CHOOSE x \in events : x.key = key
         IN  (events \ {e}) \cup {merge(e, event)}
    ELSE events \cup {event}

\* Inject::inject
Inject ==
    /\ conn_manage = None
    /\ conn_manage' = Some(BiStreamManage)
    /\ naming_addr' = Some(NamingActor)
    /\ UNCHANGED <<inner_delay_notify, lastNotify, fired, sent>>
    /\ UNCHANGED <<file, inner, wait, actor, reply, ioErr, down, termSeen, nreq, ndown>>

\* Handler<DelayNotifyCmd>::handle, DelayNotifyCmd::Notify(key, client_id_set)
Notify ==
    \E key \in ServiceKeys, client_id_set \in SUBSET ClientIds :
        LET event == NamingDelayEvent(key, client_id_set, None, conn_manage)
        IN  /\ inner_delay_notify' = add_event(inner_delay_notify, event.key, event)
            /\ lastNotify' = Some([event |-> event, pending |-> inner_delay_notify])
            /\ UNCHANGED <<conn_manage, naming_addr, fired, sent>>
            /\ UNCHANGED <<file, inner, wait, actor, reply, ioErr, down, termSeen,
                           nreq, ndown>>

\* notify_heartbeat: timeout() gives the events that are due, and
\* fill_event_data_and_notify sets service_info from the answer of the
\* NamingActor (left as it is when the query fails) and calls on_event
NotifyHeartbeat ==
    \E due \in (SUBSET inner_delay_notify) \ {{}} :
        \E answer \in [due -> {None} \cup {Some(i) : i \in ServiceInfos}] :
            LET events ==
                    IF naming_addr = None THEN {}
                    ELSE {[e EXCEPT !.service_info =
                              IF answer[e] # None THEN answer[e] ELSE @] : e \in due}
            IN  /\ inner_delay_notify' = inner_delay_notify \ due
                /\ fired' = events
                /\ sent' = UNION {on_event(e) : e \in events}
                /\ UNCHANGED <<conn_manage, naming_addr, lastNotify>>
                /\ UNCHANGED <<file, inner, wait, actor, reply, ioErr, down, termSeen,
                               nreq, ndown>>

NextNotify ==
    \/ Inject
    \/ Notify
    \/ NotifyHeartbeat

SpecNotify == Init /\ [][NextNotify]_vars

(***************************************************************************)
(* Properties.                                                             *)
(***************************************************************************)

\* the RaftIndexInnerManager, in the manager or in the future that took it
Mem ==
    IF inner # None THEN inner
    ELSE IF wait # None /\ Task.op # "init" THEN Task.v
    ELSE None

Replied(op) == reply # None /\ Unwrap(reply).req.op = op
Req == Unwrap(reply).req
Res == Unwrap(reply).res
Pre == Unwrap(Unwrap(reply).pre)

\* init has just made the manager Ready after the process had gone down
JustLoaded ==
    /\ actor = "Running" /\ wait = None /\ inner # None
    /\ reply = None /\ ndown > 0

Mutations ==
    {"SaveLogs", "SaveSnapshots", "SaveMember", "SaveNodeAddr", "AddNodeAddr",
     "SaveHardState", "SaveLastAppliedLog"}

\* C1: a SaveHardState whose term is below the stored current_term fails
\* and leaves the in-memory catalog and the index file as they were.
C1_StaleHardStateRejected ==
    (Replied("SaveHardState") /\ Unwrap(reply).pre # None
        /\ Req.current_term < Pre.raft_index.current_term)
    => /\ ~Res.ok
       /\ Unwrap(Mem).raft_index = Pre.raft_index
       /\ file = Unwrap(reply).file0

\* C2: the current_term a caller is shown by LoadHardState or LoadIndexInfo,
\* or stores with a successful SaveHardState, is never below a current_term
\* shown or stored earlier, restarts included.
C2_TermNeverDecreases ==
    (reply # None /\ Res.ok
        /\ (Req.op = "SaveHardState" \/ Res.val.kind \in {"HardState", "RaftIndexInfo"}))
    => ShownTerm(Req, Res) >= Unwrap(reply).seen

\* C3: a SaveLastAppliedLog(n) with n below the stored last_applied_log
\* fails and leaves last_applied_log, in memory and in the file header, as
\* it was.
C3_StaleAppliedRejected ==
    (Replied("SaveLastAppliedLog") /\ Unwrap(reply).pre # None
        /\ Req.last_applied_log < Pre.last_applied_log)
    => /\ ~Res.ok
       /\ Unwrap(Mem).last_applied_log = Pre.last_applied_log
       /\ bin_to_id(ReadHeader(file, HeaderLen)) = Pre.last_applied_log

Contiguous(logs) ==
    \A i \in 1..(Len(logs) - 1) :
        logs[i + 1].start_index = logs[i].start_index + logs[i].record_count

OnlyLastOpen(logs) == \A i \in 1..(Len(logs) - 1) : logs[i].is_close

\* C4: the segment list of the catalog is always contiguous with only its
\* last segment unsealed, and a SaveLogs that would break this fails.
C4_SegmentListValid ==
    /\ Mem # None =>
          /\ Contiguous(Unwrap(Mem).raft_index.logs)
          /\ OnlyLastOpen(Unwrap(Mem).raft_index.logs)
    /\ (Replied("SaveLogs")
          /\ ~(Contiguous(Req.logs) /\ OnlyLastOpen(Req.logs))) => ~Res.ok

\* C5: a mutating request is answered with success only once its file
\* write (and flush) has been carried out.
C5_ReplyAfterWrite ==
    (reply # None /\ Req.op \in Mutations /\ Res.ok) => wait = None

\* C6: after a file operation of a mutation has failed the manager is
\* Failed: it is not running, and serves nothing from its in-memory state.
C6_IoErrorStopsManager == ioErr => actor # "Running"

CleanRestart == JustLoaded /\ down.clean

LastSaved == Unwrap(down.saved)

\* C7: after an orderly shutdown of a run without I/O errors, init loads
\* the catalog and the last_applied_log last saved.
C7_RestartLoadsLastSaved == CleanRestart => Unwrap(inner) = LastSaved

\* a restart after a save that left the record shorter than the file
C7_Witness ==
    /\ CleanRestart
    /\ Len(file) > HeaderLen + Len(IndexBuf(inner))
    /\ Unwrap(inner) = LastSaved
    /\ Unwrap(inner).raft_index # try_into(FreshIndex)

AfterCrashIn(op) == JustLoaded /\ down.task # None /\ Unwrap(down.task).op = op

\* what was on disk when the interrupted request was taken up
DiskBefore == Unwrap(Unwrap(down.task).disk)

\* C8: after a crash during a rewrite of the catalog record, an init that
\* succeeds loads the new catalog (or the old one, still untouched), never a
\* mix of the two.
C8_NoHybridCatalog ==
    AfterCrashIn("write_index") =>
        Unwrap(inner).raft_index \in
            {Unwrap(Unwrap(down.task).index), DiskBefore.raft_index}

CorruptFile == Len(file) # 0 /\ read_next(file, HeaderLen) = None

\* C9: init on a non-empty file whose record is truncated fails: the
\* manager does not become Ready, the actor stops, the file stays as it is;
\* init writes only into a file it found empty.
C9_CorruptFileStopsInit ==
    [][/\ (At("init", "open") /\ CorruptFile) =>
              (file' = file /\ inner' = None /\ actor' # "Running")
       /\ (actor = "Running" /\ wait # None /\ Task.op = "init" /\ file' # file) =>
              Task.file0 = <<>>]_vars

C9_Witness == actor = "Stopped" /\ ~ioErr /\ CorruptFile /\ inner = None

\* C10: after a crash during SaveLastAppliedLog(n), init loads either n or
\* the value the header held before, and the catalog the file held before.
C10_AppliedOldOrNew ==
    AfterCrashIn("write_last_applied_log") =>
        /\ Unwrap(inner).last_applied_log \in
              {DiskBefore.last_applied_log,
               Unwrap(Unwrap(down.task).last_applied_log)}
        /\ Unwrap(inner).raft_index = DiskBefore.raft_index

C10_Witness ==
    /\ AfterCrashIn("write_last_applied_log")
    /\ Unwrap(inner).last_applied_log = Unwrap(Unwrap(down.task).last_applied_log)
    /\ Unwrap(inner).last_applied_log # DiskBefore.last_applied_log
    /\ Unwrap(inner).raft_index # try_into(FreshIndex)

\* C11: as long as no request has been handled, a Ready manager holds what
\* init gives on an empty file: last_applied_log 0, the single open segment
\* {id 0, start_index 0, pre_term 0, record_count 0}, no snapshots, no
\* members, no node addresses; a restart loads the same from the file that
\* init wrote.
C11_FreshInit ==
    (nreq = 0 /\ inner # None) =>
        /\ Unwrap(inner).last_applied_log = 0
        /\ Unwrap(inner).raft_index =
              [current_term |-> 0, voted_for |-> 0, member |-> <<>>,
               member_after_consensus |-> <<>>, node_addrs |-> EmptyMap,
               logs |-> <<[id |-> 0, start_index |-> 0, pre_term |-> 0,
                           record_count |-> 0, is_close |-> FALSE,
                           mark_remove |-> FALSE]>>,
               snapshots |-> <<>>]

\* the manager is Ready again after a restart on the file init wrote
C11_Witness ==
    /\ JustLoaded /\ nreq = 0
    /\ file = id_to_bin(0) \o write_message(FreshIndex)
    /\ Unwrap(inner).raft_index.logs = <<LogRange(0, 0, 0, 0, FALSE)>>

Sequential ==
    (actor = "Running" /\ wait = None /\ reply # None /\ ~ioErr) =>
        /\ LoadFile(Unwrap(reply).file0) = Unwrap(reply).pre
        /\ Unwrap(reply).pre # None => LoadFile(file) = Some(Saved(Pre, Req))

\* C13: a request is taken up only when the file operations of every
\* earlier request are done; every write into the file belongs to the
\* request taken up last (the header to a SaveLastAppliedLog, the catalog
\* record to another mutation); once the operations are done the file holds
\* what applying the requests one at a time in their order gives.
C13_Serialized ==
    /\ [][/\ nreq' # nreq => wait = None
          /\ (file' # file /\ actor = "Running" /\ wait # None /\ Task.op # "init") =>
                 /\ reply # None /\ Req.op \in Mutations
                 /\ (Task.op = "write_last_applied_log") =
                        (Req.op = "SaveLastAppliedLog")]_vars
    /\ []Sequential

\* a catalog rewrite and then a header write, both carried out
C13_Witness ==
    /\ nreq = 2 /\ ndown = 0 /\ wait = None /\ ~ioErr
    /\ Replied("SaveLastAppliedLog")
    /\ Pre.raft_index # try_into(FreshIndex)
    /\ LoadFile(Unwrap(reply).file0) = Some(Pre)
    /\ LoadFile(file) = Some(Saved(Pre, Req))
    /\ LoadFile(file) # LoadFile(Unwrap(reply).file0)

\* the highest entry index the segments hold (0 while they hold no entry)
LastLogIndex(logs) ==
    IF logs = <<>> THEN 0
    ELSE Max(logs[Len(logs)].start_index + logs[Len(logs)].record_count - 1, 0)

\* C14: last_applied_log is never above the highest stored entry index and
\* never below the last_included_index of the last snapshot, whatever the
\* order of SaveLastAppliedLog, SaveLogs and SaveSnapshots.
C14_AppliedWithinLog ==
    Mem # None =>
        LET index == Unwrap(Mem).raft_index
            snapshots == index.snapshots
        IN  /\ Unwrap(Mem).last_applied_log <= LastLogIndex(index.logs)
            /\ snapshots # <<>> =>
                  Unwrap(Mem).last_applied_log >=
                      snapshots[Len(snapshots)].last_included_index

\* C15: while there is a snapshot, the first segment starts above the
\* last_included_index of the last snapshot, and a SaveLogs or SaveSnapshots
\* that would break this fails and leaves the catalog as it was.
C15_LogsStartAfterSnapshot ==
    /\ Mem # None =>
          LET index == Unwrap(Mem).raft_index
              snapshots == index.snapshots
          IN  (snapshots # <<>> /\ index.logs # <<>>) =>
                  index.logs[1].start_index >=
                      snapshots[Len(snapshots)].last_included_index + 1
    /\ (reply # None /\ Unwrap(reply).pre # None
          /\ Req.op \in {"SaveLogs", "SaveSnapshots"}
          /\ LET index == Saved(Pre, Req).raft_index
                 snapshots == index.snapshots
             IN  /\ snapshots # <<>> /\ index.logs # <<>>
                 /\ index.logs[1].start_index <
                        snapshots[Len(snapshots)].last_included_index + 1)
       => (~Res.ok /\ Unwrap(Mem).raft_index = Pre.raft_index)

\* bytes 0..8 of the index file, and what follows them
HeaderOf(f) == SubSeq(f, 1, HeaderLen)
RecordOf(f) == SubSeq(f, HeaderLen + 1, Len(f))

\* C16: from the moment a SaveLastAppliedLog is taken up, the catalog in
\* memory and the file from offset 8 on are what they were before it; from
\* the moment any other mutation is taken up, last_applied_log in memory
\* and bytes 0..8 of the file are what they were before it.
C16_HeaderAndRecordApart ==
    (reply # None /\ Unwrap(reply).pre # None /\ Mem # None) =>
        /\ Req.op = "SaveLastAppliedLog" =>
              /\ Unwrap(Mem).raft_index = Pre.raft_index
              /\ RecordOf(file) = RecordOf(Unwrap(reply).file0)
        /\ Req.op \in Mutations \ {"SaveLastAppliedLog"} =>
              /\ Unwrap(Mem).last_applied_log = Pre.last_applied_log
              /\ HeaderOf(file) = HeaderOf(Unwrap(reply).file0)

\* a catalog rewrite carried out over a header that holds 1 or more
C16_Witness ==
    /\ reply # None /\ Req.op \in Mutations \ {"SaveLastAppliedLog"}
    /\ wait = None /\ ~ioErr /\ inner # None
    /\ Pre.last_applied_log > 0
    /\ Unwrap(inner).last_applied_log = Pre.last_applied_log
    /\ HeaderOf(file) = id_to_bin(Pre.last_applied_log)
    /\ RecordOf(file) # RecordOf(Unwrap(reply).file0)

MemberLists(index) == <<index.member, index.member_after_consensus>>

\* C17: SaveMember sets member and member_after_consensus together: from
\* the moment it is taken up the manager holds both new lists, the given
\* node_addrs (or the old ones if none are given) and everything else as it
\* was; and what a restart loads after a crash during its catalog write
\* shows both new lists or both old ones.
C17_MemberAtomic ==
    /\ (Replied("SaveMember") /\ Unwrap(reply).pre # None /\ Mem # None) =>
           Unwrap(Mem) = Saved(Pre, Req)
    /\ (AfterCrashIn("write_index") /\ Unwrap(down.task).req = "SaveMember") =>
           MemberLists(Unwrap(inner).raft_index) \in
               {MemberLists(Unwrap(Unwrap(down.task).index)),
                MemberLists(DiskBefore.raft_index)}

\* what a GetTargetAddr(id) handled now is answered with
TargetAddr(m, id) == get_target_addr(m, id).res

\* C18: after AddNodeAddr(id, a) GetTargetAddr(id) gives a and every other
\* id gives what it gave before; after SaveNodeAddr(m) GetTargetAddr(j)
\* gives m[j] for a key j of m and None for any other j.
C18_UpsertAndReplace ==
    (reply # None /\ Unwrap(reply).pre # None /\ Mem # None) =>
        /\ Req.op = "AddNodeAddr" =>
              \A j \in Nodes :
                  TargetAddr(Mem, j) =
                      IF j = Req.id
                      THEN Ok([kind |-> "TargetAddr", addr |-> Some(Req.node_addr)])
                      ELSE TargetAddr(Unwrap(reply).pre, j)
        /\ Req.op = "SaveNodeAddr" =>
              \A j \in Nodes :
                  TargetAddr(Mem, j) =
                      Ok([kind |-> "TargetAddr",
                          addr |-> IF j \in DOMAIN Req.node_addr
                                   THEN Some(Req.node_addr[j]) ELSE None])

\* an AddNodeAddr that changes one of two addresses held
C18_Witness ==
    /\ Replied("AddNodeAddr") /\ wait = None /\ inner # None
    /\ Req.id \in DOMAIN Pre.raft_index.node_addrs
    /\ Pre.raft_index.node_addrs[Req.id] # Req.node_addr
    /\ TargetAddr(inner, Req.id).val.addr = Some(Req.node_addr)
    /\ \E j \in DOMAIN Pre.raft_index.node_addrs :
          /\ j # Req.id
          /\ TargetAddr(inner, j).val.addr = Some(Pre.raft_index.node_addrs[j])

\* C19: once init has succeeded, inner is present whenever a request can be
\* taken up (the future of a write holds it meanwhile and gives it back,
\* also after an error), so every request is handled with inner present:
\* none is answered with an error, and no LoadIndexInfo, LoadHardState or
\* LoadMember with an empty response.
C19_InnerPresent ==
    /\ (actor = "Running" /\ wait = None) => inner # None
    /\ (actor = "Running" /\ wait # None /\ Task.op # "init") =>
          (inner = None /\ Task.v # None)
    /\ reply # None =>
          /\ Unwrap(reply).pre # None
          /\ Res.ok
          /\ Req.op \in {"LoadIndexInfo", "LoadHardState", "LoadMember"} =>
                Res.val.kind # "None"

\* a Load handled after the write of the request before it has failed
C19_Witness ==
    /\ nreq = 2 /\ ioErr /\ wait = None /\ inner # None
    /\ reply # None /\ Req.op \in {"LoadIndexInfo", "LoadHardState", "LoadMember"}
    /\ Unwrap(reply).pre # None /\ Res.ok /\ Res.val.kind # "None"

\* what the Load requests show of a manager
Shown(m, msg) ==
    CASE msg.op = "LoadIndexInfo" ->
             Ok([kind |-> "RaftIndexInfo", raft_index |-> m.raft_index,
                 last_applied_log |-> m.last_applied_log])
      [] msg.op = "LoadHardState" ->
             Ok([kind |-> "HardState",
                 current_term |-> m.raft_index.current_term,
                 voted_for |-> m.raft_index.voted_for])
      [] msg.op = "LoadMember" ->
             Ok([kind |-> "MemberShip", member |-> m.raft_index.member,
                 member_after_consensus |-> m.raft_index.member_after_consensus,
                 node_addrs |-> m.raft_index.node_addrs])
      [] msg.op = "GetTargetAddr" ->
             Ok([kind |-> "TargetAddr",
                 addr |-> IF msg.id \in DOMAIN m.raft_index.node_addrs
                          THEN Some(m.raft_index.node_addrs[msg.id]) ELSE None])

Loads == {"LoadIndexInfo", "LoadHardState", "LoadMember", "GetTargetAddr"}

\* C20: the manager a request is handled on holds, field by field, what
\* the request before it left (that request applied to the manager it was
\* handled on, whether its file write was carried out or failed), and a
\* Load or GetTargetAddr is answered with the fields of the manager it is
\* handled on: the value of the latest earlier request that set the field,
\* or the value init loaded.
C20_ReadYourWrites ==
    (reply # None /\ Unwrap(reply).pre # None) =>
        /\ (actor = "Running" /\ wait = None) =>
               inner = Some(Saved(Pre, Req))
        /\ Req.op \in Loads => Res = Shown(Pre, Req)

\* a LoadIndexInfo that shows what a Save whose write failed had set
C20_Witness ==
    /\ Replied("LoadIndexInfo") /\ nreq = 2 /\ ioErr
    /\ Res = Shown(Pre, Req)
    /\ LoadFile(file) # None
    /\ Res.val.raft_index # Unwrap(LoadFile(file)).raft_index

\* the event that was pending for the key of the last DelayNotifyCmd
PendingBefore ==
    {a \in Unwrap(lastNotify).pending : a.key = Unwrap(lastNotify).event.key}

\* the event now pending for that key
PendingNow ==
    {e \in inner_delay_notify : e.key = Unwrap(lastNotify).event.key}

\* C21: merge of a pending event with any event keeps the key of the
\* pending one and takes client_id_set, service_info and conn_manage from
\* the other, so that after a Notify
\* for a key with an event pending the event pending for the key is the new
\* one (no client id of the earlier one is kept); and on_event sends one
\* NotifyNaming(key, client_id_set, service_info) if conn_manage and
\* service_info are both present and nothing otherwise.
C21_MergeLastWriterWins ==
    /\ \A a \in inner_delay_notify, b \in NamingDelayEvents :
          merge(a, b) = NamingDelayEvent(a.key, b.client_id_set, b.service_info,
                                         b.conn_manage)
    /\ (lastNotify # None /\ PendingBefore # {} /\ PendingNow # {}) =>
          PendingNow = {Unwrap(lastNotify).event}
    /\ \A e \in fired \cup inner_delay_notify :
          on_event(e) =
              IF e.conn_manage # None /\ e.service_info # None
              THEN {NotifyNaming(e.key, e.client_id_set, Unwrap(e.service_info))}
              ELSE {}
    /\ sent = {NotifyNaming(e.key, e.client_id_set, Unwrap(e.service_info)) :
                  e \in {x \in fired :
                            x.conn_manage # None /\ x.service_info # None}}

\* a Notify merged into an event with another client id, after a heartbeat
\* that sent for one event and not for another
C21_Witness ==
    /\ lastNotify # None
    /\ \E a \in PendingBefore :
          /\ a.client_id_set = {"c1"}
          /\ Unwrap(lastNotify).event.client_id_set = {"c2"}
    /\ PendingNow = {Unwrap(lastNotify).event}
    /\ sent # {}
    /\ \E e \in fired : on_event(e) = {}

====
